---- MODULE Spec2Model ----
(***************************************************************************)
(* Model of the retrieval core of smart-librarian:                         *)
(*   src/src/ingest.py        chunk_text, main                             *)
(*   src/src/vector_store.py  reset_collection, add_chunks, query_raw,     *)
(*                            search_with_rerank                           *)
(* A Python str is a sequence of one-character strings.                    *)
(***************************************************************************)
EXTENDS Integers, Sequences, FiniteSets, TLC

VARIABLES
    \* chunk_text (ingest.py:13-38)
    text,           \* the argument `text`
    target_chars,   \* the argument `target_chars`
    overlap,        \* the argument `overlap`
    sentences,      \* the sentences the for loop has not visited yet
    buf,            \* the local `buf`
    chunks,         \* the local `chunks`
    parts,          \* history: for each element of chunks, the sentences appended to it
    cur,            \* history: the sentences appended to buf since the last flush
    cpc,            \* position in chunk_text: "idle", "start", "loop", "done"
    \* the Chroma store and the ingestion run (vector_store.py:20-41, ingest.py:84-136)
    store,          \* the collection "smart_librarian" of _chroma: [exists, gen, entries]
    handle,         \* the generation of the collection the global _collection refers to
    nextId,         \* the ids handed out so far (uuid4 never repeats)
    ipc,            \* position in ingest.main: "idle", "delete", "create", "load", "add"
    run,            \* history of the run in progress or last ended
    prev,           \* history of the run that ended before it
    nRuns,          \* the runs started so far
    \* query_raw and search_with_rerank (vector_store.py:44-132)
    call,           \* the last call: its arguments, what it sent to the index, its result
    \* load_dataset (ingest.py:40-82)
    ldata,          \* the JSON document read from the file
    loaded,         \* what load_dataset made of it: <<>>, or <<[ok, items]>>
    \* the scoring of one candidate (vector_store.py:97-128)
    sc,             \* the candidate, the query, and sem, lex, boost and score
    \* searches running side by side
    callers,        \* for every caller: position, arguments, locals and result
    \* ingestion runs side by side, each in a process of its own
    procs,          \* for every process: position in main, its _collection, its history
    \* the rate limiter (server.py:79-106)
    buckets,        \* _buckets: (ip, key) -> the timestamps kept
    clock,          \* what time.time() returns
    accepted,       \* history: (ip, key) -> the times of the calls that returned True
    last            \* history: the last call of allow and what it returned

chunkVars == <<text, target_chars, overlap, sentences, buf, chunks, parts, cur, cpc>>

ingestVars == <<store, handle, nextId, ipc, run, prev, nRuns>>

searchVars == <<call>>

loadVars == <<ldata, loaded>>

scoreVars == <<sc>>

concVars == <<callers>>

procVars == <<procs>>

rateVars == <<buckets, clock, accepted, last>>

\* the variables of the later sections
extraVars == <<loadVars, scoreVars, concVars, procVars, rateVars>>

vars == <<chunkVars, ingestVars, searchVars, extraVars>>

------------------------------------------------------------------------------
(* Strings *)

Max(a, b) == IF a >= b THEN a ELSE b
Min(a, b) == IF a <= b THEN a ELSE b

\* every sequence over S of length at most n
SeqsUpTo(S, n) == UNION {[1..m -> S] : m \in 0..n}

\* str.isspace for one character
IsSpace(c) == c = " "

\* s[-n:] for n > 0
LastN(s, n) == IF Len(s) <= n THEN s ELSE SubSeq(s, Len(s) - n + 1, Len(s))

RECURSIVE LStrip(_)
LStrip(s) == IF s # <<>> /\ IsSpace(Head(s)) THEN LStrip(Tail(s)) ELSE s

RECURSIVE RStrip(_)
RStrip(s) ==
    IF s # <<>> /\ IsSpace(s[Len(s)]) THEN RStrip(SubSeq(s, 1, Len(s) - 1)) ELSE s

\* str.strip()
Strip(s) == RStrip(LStrip(s))

\* a.startswith(p)
StartsWith(a, p) == Len(p) <= Len(a) /\ SubSeq(a, 1, Len(p)) = p

\* " ".join(ss)
RECURSIVE JoinSp(_)
JoinSp(ss) ==
    IF ss = <<>> THEN <<>>
    ELSE IF Len(ss) = 1 THEN ss[1]
    ELSE ss[1] \o <<" ">> \o JoinSp(Tail(ss))

------------------------------------------------------------------------------
(* chunk_text *)

\* the characters of the look-behind class of SENT_SPLIT
SentEnd == {".", "!", "?", ":"}

\* SENT_SPLIT.split(t): cut at every maximal run of whitespace that directly
\* follows a character of SentEnd; `acc` is the piece being read
RECURSIVE SplitFrom(_, _)
SplitFrom(t, acc) ==
    IF t = <<>> THEN <<acc>>
    ELSE IF IsSpace(Head(t)) /\ acc # <<>> /\ acc[Len(acc)] \in SentEnd
         THEN <<acc>> \o SplitFrom(LStrip(t), <<>>)
         ELSE SplitFrom(Tail(t), Append(acc, Head(t)))

SENT_SPLIT_split(t) == SplitFrom(t, <<>>)

\* the condition of ingest.py:25 written without the separator
FitsNoSeparator(b, s, T) == Len(b) + Len(s) <= T

\* ingest.py:25
Fits(b, s, T) == Len(b) + Len(s) + 1 <= T

\* a chunker that carries nothing over a flush
OverlapSeedNone(b, O) == <<>>

\* ingest.py:31-34: what the buffer holds right after it was flushed
OverlapSeed(b, O) == IF O > 0 /\ Len(b) > O THEN LastN(b, O) ELSE <<>>

\* a chunker that forgets the buffer left over after the loop
FinalFlushNone(st) == st.chunks

\* ingest.py:36-37
FinalFlush(st) == IF st.buf # <<>> THEN Append(st.chunks, st.buf) ELSE st.chunks

FinalParts(st) == IF st.buf # <<>> THEN Append(st.parts, st.cur) ELSE st.parts

\* ingest.py:21-35: one iteration of the for loop, on the sentence s0.
\* st is [buf, chunks] plus the history fields parts and cur.
LoopBody(st, s0, T, O) ==
    LET s == Strip(s0) IN
    IF s = <<>> THEN st
    ELSE IF Fits(st.buf, s, T)
         THEN [st EXCEPT !.buf = Strip(st.buf \o <<" ">> \o s),
                         !.cur = Append(st.cur, s)]
         ELSE IF st.buf # <<>>
              THEN [buf    |-> Strip(OverlapSeed(st.buf, O) \o <<" ">> \o s),
                    chunks |-> Append(st.chunks, st.buf),
                    parts  |-> Append(st.parts, st.cur),
                    cur    |-> <<s>>]
              ELSE [st EXCEPT !.buf = Strip(st.buf \o <<" ">> \o s),
                              !.cur = <<s>>]

EmptyChunker == [buf |-> <<>>, chunks |-> <<>>, parts |-> <<>>, cur |-> <<>>]

RECURSIVE LoopFrom(_, _, _, _)
LoopFrom(st, ss, T, O) ==
    IF ss = <<>> THEN st ELSE LoopFrom(LoopBody(st, Head(ss), T, O), Tail(ss), T, O)

\* chunk_text(t, T, O) as a function
chunk_text(t, T, O) ==
    LET t1 == Strip(t) IN
    IF t1 = <<>> THEN <<>>
    ELSE FinalFlush(LoopFrom(EmptyChunker, SENT_SPLIT_split(t1), T, O))

------------------------------------------------------------------------------
(* JSON values, as json.load returns them *)

JNull == [t |-> "null"]
JStr(v) == [t |-> "str", v |-> v]
JNum(v) == [t |-> "num", v |-> v]
JList(v) == [t |-> "list", v |-> v]
\* a dict in insertion order: keys k, values v
JDict(k, v) == [t |-> "dict", k |-> k, v |-> v]

\* bool(x)
Truthy(x) ==
    CASE x.t = "null" -> FALSE
      [] x.t = "num"  -> x.v # 0
      [] x.t = "dict" -> x.k # <<>>
      [] OTHER        -> x.v # <<>>

\* a or b
Or(a, b) == IF Truthy(a) THEN a ELSE b

HasKey(d, key) == \E i \in 1..Len(d.k) : d.k[i] = key

\* d.get(key)
Get(d, key) ==
    IF HasKey(d, key) THEN d.v[CHOOSE i \in 1..Len(d.k) : d.k[i] = key] ELSE JNull

\* sep.join(ss)
RECURSIVE Join(_, _)
Join(sep, ss) ==
    IF ss = <<>> THEN <<>>
    ELSE IF Len(ss) = 1 THEN ss[1]
    ELSE ss[1] \o sep \o Join(sep, Tail(ss))

------------------------------------------------------------------------------
(* The data of the model: book_summaries.json in its several shapes *)

S_Dune == <<"D", "u", "n", "e">>
S_Emma == <<"E", "m", "m", "a">>
S_Al == <<"A", "l">>
S_Bo == <<"B", "o">>
S_war == <<"w", "a", "r">>
S_love == <<"l", "o", "v", "e">>
S_wit == <<" ", "W", "i", "t">>
S_ro == <<"r", "o">>
T_Dune == <<"W", "a", "r", " ", "o", "n", " ", "D", "u", "n", "e", ".", " ", "w", "a", "r", "!">>
T_Emma == <<"L", "o", "v", "e", " ", "a", "n", "d", " ", "w", "i", "t", ".">>
S_Saga == <<"S", "a", "g", "a">>
T_Saga == <<"A", " ", "s", "a", "g", "a", ":", " ", "l", "o", "v", "e", ",", " ", "w", "a", "r", "?">>

\* the text of a key of a title-keyed mapping
KeyText(key) ==
    IF key = "Dune" THEN S_Dune
    ELSE IF key = "Emma" THEN S_Emma
    ELSE IF key = "books" THEN <<"b", "o", "o", "k", "s">>
    ELSE <<>>

RecDune ==
    JDict(<<"title", "author", "themes", "summary_full">>,
          <<JStr(S_Dune), JStr(S_Al), JList(<<JStr(S_war)>>), JStr(T_Dune)>>)

RecEmma ==
    JDict(<<"title", "author", "tags", "published", "summary">>,
          <<JStr(S_Emma), JStr(S_Bo), JList(<<JStr(S_love), JNull, JStr(S_wit)>>),
            JNum(1815), JStr(T_Emma)>>)

\* themes given as one string
RecSaga ==
    JDict(<<"title", "author", "themes", "year", "language", "short_summary">>,
          <<JStr(S_Saga), JStr(S_Al), JStr(S_love), JStr(<<"1", "9", "9", "0">>),
            JStr(<<"e", "n">>), JStr(T_Saga)>>)

\* a record of a title-keyed mapping: no title of its own, themes as one string
RecEmmaUntitled ==
    JDict(<<"author", "themes", "text">>, <<JStr(S_Bo), JStr(S_love), JStr(T_Emma)>>)

RecBlank == JDict(<<"title", "summary_full">>, <<JStr(S_Dune), JStr(<<" ">>)>>)

\* the i-th of several records that share one summary
RecCopy(i) ==
    JDict(<<"title", "author", "summary_full">>,
          <<JStr(S_Dune), JStr(IF i % 2 = 1 THEN S_Al ELSE S_Bo), JStr(T_Dune)>>)

\* more records than the smallest candidate set of a search (12) holds
ManyRecords == 13

FileEmpty == JList(<<>>)
FileOne == JList(<<RecDune>>)
FileBooks == JDict(<<"books">>, <<JList(<<RecDune, RecEmma, RecSaga>>)>>)
FileByTitle == JDict(<<"Dune", "Emma">>, <<JStr(T_Dune), RecEmmaUntitled>>)
FileBlank == JList(<<RecBlank>>)
FileScalar == JNum(7)
FileMany == JList([i \in 1..ManyRecords |-> RecCopy(i)])

DataFiles == {FileEmpty, FileOne, FileBooks, FileByTitle, FileBlank, FileScalar, FileMany}

------------------------------------------------------------------------------
(* ingest.load_dataset and the body of ingest.main *)

\* ingest.py:53-78: the record made of one (title_key, val) of a mapping;
\* <<>> when val is neither a string nor an object
MappedItem(title_key, val) ==
    IF val.t = "str"
    THEN <<JDict(<<"title", "author", "themes", "year", "summary_full">>,
                 <<JStr(KeyText(title_key)), JStr(<<>>), JList(<<>>), JStr(<<>>),
                   JStr(Strip(val.v))>>)>>
    ELSE IF val.t = "dict"
    THEN LET title == Strip(Or(Or(Get(val, "title"), JStr(KeyText(title_key))), JStr(<<>>)).v)
             author == Strip(Or(Get(val, "author"), JStr(<<>>)).v)
             themes0 == Or(Or(Get(val, "themes"), Get(val, "tags")), JList(<<>>))
             themes == IF themes0.t = "str" THEN JList(<<themes0>>) ELSE themes0
             year == Or(Or(Get(val, "year"), Get(val, "published")), JStr(<<>>))
             summary == Or(Or(Or(Or(Get(val, "summary_full"), Get(val, "summary")),
                                 Get(val, "text")), Get(val, "short_summary")), JStr(<<>>))
         IN <<JDict(<<"title", "author", "themes", "year", "summary_full">>,
                    <<JStr(title), JStr(author), themes, year,
                      JStr(Strip(Or(summary, JStr(<<>>)).v))>>)>>
    ELSE <<>>

RECURSIVE MappedItems(_, _)
MappedItems(data, i) ==
    IF i > Len(data.k) THEN <<>>
    ELSE MappedItem(data.k[i], data.v[i]) \o MappedItems(data, i + 1)

\* load_dataset without the test of line 79: a mapping is always accepted
load_dataset_lenient(data) ==
    IF data.t = "list" THEN [ok |-> TRUE, items |-> data.v]
    ELSE IF data.t = "dict" /\ HasKey(data, "books") /\ Get(data, "books").t = "list"
    THEN [ok |-> TRUE, items |-> Get(data, "books").v]
    ELSE IF data.t = "dict"
    THEN [ok |-> TRUE, items |-> MappedItems(data, 1)]
    ELSE [ok |-> FALSE, items |-> <<>>]

\* ingest.py:40-82: [ok |-> TRUE, items |-> the records], or ok = FALSE for the
\* AssertionError of line 82
load_dataset(data) ==
    IF data.t = "list" THEN [ok |-> TRUE, items |-> data.v]
    ELSE IF data.t = "dict" /\ HasKey(data, "books") /\ Get(data, "books").t = "list"
    THEN [ok |-> TRUE, items |-> Get(data, "books").v]
    ELSE IF data.t = "dict" /\ MappedItems(data, 1) # <<>>
    THEN [ok |-> TRUE, items |-> MappedItems(data, 1)]
    ELSE [ok |-> FALSE, items |-> <<>>]

\* ingest.py:100-107: themes as one string
ThemesStr(item) ==
    LET raw_themes == Or(Or(Get(item, "themes"), Get(item, "tags")), JList(<<>>))
        themes_list ==
            IF raw_themes.t = "str" THEN <<raw_themes.v>>
            ELSE IF raw_themes.t = "list"
            THEN LET kept == SelectSeq(raw_themes.v, LAMBDA x : x.t # "null")
                 IN [i \in 1..Len(kept) |-> kept[i].v]
            ELSE <<>>
        nonblank == SelectSeq(themes_list, LAMBDA th : Strip(th) # <<>>)
    IN Join(<<",", " ">>, [i \in 1..Len(nonblank) |-> Strip(nonblank[i])])

\* the arguments of chunk_text at ingest.py:114
TargetChars == 750
OverlapChars == 120

\* ingest.py:96-128: the (document, metadata) pairs of one record
ItemEntries(item) ==
    LET title == Strip(Or(Get(item, "title"), JStr(<<>>)).v)
        author == Strip(Or(Get(item, "author"), JStr(<<>>)).v)
        year == Or(Or(Get(item, "year"), Get(item, "published")), JStr(<<>>))
        lang == Or(Get(item, "language"), JStr(S_ro))
        summary == Or(Or(Or(Or(Get(item, "summary_full"), Get(item, "summary")),
                            Get(item, "text")), Get(item, "short_summary")), JStr(<<>>))
        chs == chunk_text(summary.v, TargetChars, OverlapChars)
    IN [i \in 1..Len(chs) |->
           [document |-> chs[i],
            metadata |-> [title |-> title, author |-> author, themes |-> ThemesStr(item),
                          year |-> year, language |-> lang.v,
                          chunk |-> i - 1, chunks_total |-> Len(chs)]]]

\* ingest.py:91-128: all_chunks and all_metas, paired
RECURSIVE AllEntries(_)
AllEntries(items) ==
    IF items = <<>> THEN <<>> ELSE ItemEntries(Head(items)) \o AllEntries(Tail(items))

\* ingest.py:128 and vector_store.py:39-41: the entries add_chunks inserts,
\* with ids first+1, first+2, ...
WithIds(ents, first) ==
    [i \in 1..Len(ents) |->
        [id |-> first + i, document |-> ents[i].document, metadata |-> ents[i].metadata]]

------------------------------------------------------------------------------
(* Text helpers of the reranker *)

UpperCase == <<"A", "B", "C", "D", "E", "F", "G", "H", "I", "J", "K", "L", "M",
               "N", "O", "P", "Q", "R", "S", "T", "U", "V", "W", "X", "Y", "Z">>
LowerCase == <<"a", "b", "c", "d", "e", "f", "g", "h", "i", "j", "k", "l", "m",
               "n", "o", "p", "q", "r", "s", "t", "u", "v", "w", "x", "y", "z">>
Digits == {"0", "1", "2", "3", "4", "5", "6", "7", "8", "9"}

IsUpper(c) == \E i \in 1..26 : UpperCase[i] = c

LowerChar(c) == IF IsUpper(c) THEN LowerCase[CHOOSE i \in 1..26 : UpperCase[i] = c] ELSE c

\* s.lower()
LowerStr(s) == [i \in 1..Len(s) |-> LowerChar(s[i])]

\* the class \w
IsWordChar(c) == IsUpper(c) \/ (\E i \in 1..26 : LowerCase[i] = c) \/ c \in Digits \/ c = "_"

\* needle in hay
Contains(hay, needle) ==
    \E i \in 0..(Len(hay) - Len(needle)) : SubSeq(hay, i + 1, i + Len(needle)) = needle

\* s.split(c)
RECURSIVE SplitOnFrom(_, _, _)
SplitOnFrom(s, c, acc) ==
    IF s = <<>> THEN <<acc>>
    ELSE IF Head(s) = c THEN <<acc>> \o SplitOnFrom(Tail(s), c, <<>>)
    ELSE SplitOnFrom(Tail(s), c, Append(acc, Head(s)))

SplitOn(s, c) == SplitOnFrom(s, c, <<>>)

\* _word_re.findall(s): the maximal runs of word characters
RECURSIVE FindWordsFrom(_, _)
FindWordsFrom(s, acc) ==
    IF s = <<>> THEN (IF acc = <<>> THEN <<>> ELSE <<acc>>)
    ELSE IF IsWordChar(Head(s)) THEN FindWordsFrom(Tail(s), Append(acc, Head(s)))
    ELSE (IF acc = <<>> THEN <<>> ELSE <<acc>>) \o FindWordsFrom(Tail(s), <<>>)

\* vector_store.py:65-66
norm_words(s) ==
    LET ws == FindWordsFrom(s, <<>>) IN [i \in 1..Len(ws) |-> LowerStr(ws[i])]

SeqRange(ss) == {ss[i] : i \in 1..Len(ss)}

------------------------------------------------------------------------------
(* Scores.  A score is the fraction num/den of 1/10000; a distance and a      *)
(* semantic similarity are counted in hundredths.  The fractions are exact:    *)
(* the code computes in binary floating point, so two scores closer than its   *)
(* rounding error may compare differently there.                               *)

Frac(num, den) == [num |-> num, den |-> den]

\* a >= b for fractions with positive denominators
FracGeq(a, b) == a.num * b.den >= b.num * a.den

\* round(x, 4) of the fraction f, in units of 1/10000: the nearest integer,
\* a tie going to the even one
Round4(f) ==
    LET fl == f.num \div f.den
        twice == 2 * (f.num % f.den)
    IN IF twice < f.den THEN fl
       ELSE IF twice > f.den THEN fl + 1
       ELSE IF fl % 2 = 0 THEN fl ELSE fl + 1

\* the overlap with every word of the document counted once
lexical_overlap_distinct(q, doc) ==
    LET q_words == SeqRange(norm_words(q))
        t_words == norm_words(doc)
    IN IF q_words = {} THEN Frac(0, 1)
       ELSE IF t_words = <<>> THEN Frac(0, 1)
       ELSE Frac(Cardinality(SeqRange(t_words) \cap q_words), Max(6, Len(t_words)))

\* vector_store.py:68-76: hit / max(6, len(t_words)), as (hit, denominator)
lexical_overlap_score(q, doc) ==
    LET q_words == SeqRange(norm_words(q))
        t_words == norm_words(doc)
        hit == Cardinality({i \in 1..Len(t_words) : t_words[i] \in q_words})
    IN IF q_words = {} THEN Frac(0, 1)
       ELSE IF t_words = <<>> THEN Frac(0, 1)
       ELSE Frac(hit, Max(6, Len(t_words)))

\* 1 - dist without the clamp of line 99
SemanticUnclamped(dist) == 100 - dist

\* vector_store.py:98-99: clamp(1 - dist, 0, 1), in hundredths
Semantic(dist) ==
    LET sem == 100 - dist IN IF sem < 0 THEN 0 ELSE IF sem > 100 THEN 100 ELSE sem

\* the boost of the title with the substring test made before the equality test
TitleBoostSubstringFirst(q, title) ==
    LET q_low == LowerStr(q)
        t_low == LowerStr(title)
    IN IF title = <<>> THEN 0
       ELSE IF Contains(q_low, t_low) \/ Contains(t_low, q_low) THEN 1200
       ELSE IF Strip(q_low) = t_low THEN 2000
       ELSE Min(1000, 200 * Cardinality(SeqRange(norm_words(title))
                                        \cap SeqRange(norm_words(q))))

\* vector_store.py:110-118: the boost of the title, in 1/10000
TitleBoost(q, title) ==
    LET q_low == LowerStr(q)
        t_low == LowerStr(title)
    IN IF title = <<>> THEN 0
       ELSE IF Strip(q_low) = t_low THEN 2000
       ELSE IF Contains(q_low, t_low) \/ Contains(t_low, q_low) THEN 1200
       ELSE Min(1000, 200 * Cardinality(SeqRange(norm_words(title))
                                        \cap SeqRange(norm_words(q))))

\* vector_store.py:106-108, 120-122: 0.04 for every theme found in the query
ThemesBoost(q, themes_val) ==
    LET q_low == LowerStr(q)
        split == SplitOn(themes_val, ",")
        kept == SelectSeq(split, LAMBDA th : Strip(th) # <<>>)
        themes_list == [i \in 1..Len(kept) |-> LowerStr(Strip(kept[i]))]
    IN 400 * Cardinality({i \in 1..Len(themes_list) :
                            themes_list[i] # <<>> /\ Contains(q_low, themes_list[i])})

\* vector_store.py:105, 124-125
AuthorBoost(q, author0) ==
    LET author == Strip(author0)
    IN IF author # <<>> /\ Contains(LowerStr(q), LowerStr(author)) THEN 600 ELSE 0

\* vector_store.py:103-125
Boost(q, meta) ==
    TitleBoost(q, Strip(meta.title)) + ThemesBoost(q, meta.themes) + AuthorBoost(q, meta.author)

\* vector_store.py:127: 0.60 * sem + 0.25 * lex + boost
Score(sem, lex, boost) ==
    Frac(60 * sem * lex.den + 2500 * lex.num + boost * lex.den, lex.den)

------------------------------------------------------------------------------
(* The index query and the two search functions *)

\* Optional[Dict]: None is <<>>, a dict d is <<d>>; a dict is a function
None == <<>>
Some(d) == <<d>>
EmptyDict == <<>>

\* `where and len(where) > 0`
IsRealFilter(where) == where # None /\ DOMAIN where[1] # {}

\* the keyword arguments whenever a filter object is given, empty or not
build_query_kwargs_any(q, n_results, where) ==
    IF where # None
    THEN [query_embeddings |-> q, n_results |-> n_results, where |-> where[1]]
    ELSE [query_embeddings |-> q, n_results |-> n_results]

\* vector_store.py:44-54 (embed(q) stands as q; include is constant)
build_query_kwargs(q, n_results, where) ==
    IF IsRealFilter(where)
    THEN [query_embeddings |-> q, n_results |-> n_results, where |-> where[1]]
    ELSE [query_embeddings |-> q, n_results |-> n_results]

\* the index's test of a metadata against a filter of equalities
Matches(meta, where) == \A key \in DOMAIN where : meta[key] = where[key]

\* stable sort of candidates by ascending distance
RECURSIVE InsertByDistance(_, _)
InsertByDistance(sorted, x) ==
    IF sorted = <<>> THEN <<x>>
    ELSE IF Head(sorted).distance <= x.distance
         THEN <<Head(sorted)>> \o InsertByDistance(Tail(sorted), x)
         ELSE <<x>> \o sorted

RECURSIVE SortByDistance(_)
SortByDistance(cs) ==
    IF cs = <<>> THEN <<>>
    ELSE InsertByDistance(SortByDistance(SubSeq(cs, 1, Len(cs) - 1)), cs[Len(cs)])

FirstN(xs, n) == SubSeq(xs, 1, Min(n, Len(xs)))

\* vector_store.py:59: _collection.query(**kwargs).  dist gives the cosine
\* distance of every stored document to the query embedding.  The nearest
\* n_results entries that match `where`, nearest first, ties in insertion
\* order; an empty `where` is refused by the index.
collection_query(entries, kwargs, dist) ==
    IF "where" \in DOMAIN kwargs /\ DOMAIN kwargs.where = {}
    THEN [ok |-> FALSE, cands |-> <<>>]
    ELSE LET matching == IF "where" \in DOMAIN kwargs
                         THEN SelectSeq(entries, LAMBDA e : Matches(e.metadata, kwargs.where))
                         ELSE entries
             cands == [i \in 1..Len(matching) |->
                          [document |-> matching[i].document,
                           metadata |-> matching[i].metadata,
                           distance |-> dist[matching[i].document]]]
         IN [ok |-> TRUE, cands |-> FirstN(SortByDistance(cands), kwargs.n_results)]

\* vector_store.py:57-60
query_raw(entries, q, n_results, where, dist) ==
    LET kwargs == build_query_kwargs(q, n_results, where)
    IN [sent |-> kwargs, res |-> collection_query(entries, kwargs, dist)]

\* a candidate count that ignores k
CandidateCountOne(k) == 1

\* vector_store.py:86
CandidateCount(k) == Max(12, k * 3)

\* a search that drops its filter
SearchWhereNone(filters) == None

\* vector_store.py:87
SearchWhere(filters) == IF IsRealFilter(filters) THEN filters ELSE None

\* stable sort of scored items by ascending score
RECURSIVE InsertByScoreAsc(_, _)
InsertByScoreAsc(sorted, x) ==
    IF sorted = <<>> THEN <<x>>
    ELSE IF FracGeq(x.score, Head(sorted).score)
         THEN <<Head(sorted)>> \o InsertByScoreAsc(Tail(sorted), x)
         ELSE <<x>> \o sorted

RECURSIVE SortByScoreAsc(_)
SortByScoreAsc(items) ==
    IF items = <<>> THEN <<>>
    ELSE InsertByScoreAsc(SortByScoreAsc(SubSeq(items, 1, Len(items) - 1)), items[Len(items)])

RECURSIVE InsertByScoreDesc(_, _)
InsertByScoreDesc(sorted, x) ==
    IF sorted = <<>> THEN <<x>>
    ELSE IF FracGeq(Head(sorted).score, x.score)
         THEN <<Head(sorted)>> \o InsertByScoreDesc(Tail(sorted), x)
         ELSE <<x>> \o sorted

\* vector_store.py:130: items.sort(key=score, reverse=True), which is stable
RECURSIVE SortByScoreDesc(_)
SortByScoreDesc(items) ==
    IF items = <<>> THEN <<>>
    ELSE InsertByScoreDesc(SortByScoreDesc(SubSeq(items, 1, Len(items) - 1)), items[Len(items)])

\* a slice one item short
FirstKLessOne(items, k) == FirstN(items, k - 1)

\* vector_store.py:131: items[:k], for k >= 1
FirstK(items, k) == FirstN(items, k)

\* vector_store.py:97-128: the scored item of one candidate
ScoredItem(q, c) ==
    [score |-> Score(Semantic(c.distance), lexical_overlap_score(q, c.document),
                     Boost(q, c.metadata)),
     metadata |-> c.metadata,
     document |-> c.document]

\* vector_store.py:79-132.  [sent, ok, results]: what went to the index,
\* whether the call returned, and the list it returned
search_with_rerank(entries, q, k, filters, dist) ==
    LET raw == query_raw(entries, q, CandidateCount(k), SearchWhere(filters), dist)
        items == [i \in 1..Len(raw.res.cands) |-> ScoredItem(q, raw.res.cands[i])]
        top == FirstK(SortByScoreDesc(items), k)
    IN [sent |-> raw.sent,
        ok |-> raw.res.ok,
        results |-> IF raw.res.ok
                    THEN [i \in 1..Len(top) |->
                             [document |-> top[i].document, metadata |-> top[i].metadata,
                              score |-> Round4(top[i].score)]]
                    ELSE <<>>]

------------------------------------------------------------------------------
(* The Chroma collection and one ingestion run after another *)

MaxRuns == 3

\* vector_store.py:25: the collection exists, and _collection refers to it
FreshStore == [exists |-> TRUE, gen |-> 0, entries |-> <<>>]

NoRun == [data |-> JNull, outcome |-> "none", resetFailed |-> FALSE, addCalls |-> 0,
          before |-> <<>>, firstId |-> 0, resets |-> 0]

\* the (document, metadata) pairs of entries, ids left out
DocMeta(ents) ==
    [i \in 1..Len(ents) |-> [document |-> ents[i].document, metadata |-> ents[i].metadata]]

NoCall == [op |-> "none", q |-> <<>>, k |-> 0, filters |-> <<>>, dist |-> <<>>,
           sent |-> <<>>, ok |-> TRUE, results |-> <<>>, nEntries |-> 0]

SearchIdle == call = NoCall

IngestIdle ==
    /\ store = FreshStore /\ handle = 0 /\ nextId = 0
    /\ ipc = "idle" /\ run = NoRun /\ prev = NoRun /\ nRuns = 0

\* ingest.py:84-85: main() is entered, on the file `data`
StartRun(data) ==
    /\ ipc = "idle"
    /\ nRuns < MaxRuns
    /\ nRuns' = nRuns + 1
    /\ prev' = run
    /\ run' = [NoRun EXCEPT !.data = data, !.outcome = "running",
                            !.before = DocMeta(store.entries)]
    /\ ipc' = "delete"
    /\ UNCHANGED <<store, handle, nextId>>
    /\ UNCHANGED <<chunkVars, searchVars, extraVars>>

\* vector_store.py:33: delete_collection succeeds
DeleteOk ==
    /\ ipc = "delete"
    /\ store.exists
    /\ store' = [store EXCEPT !.exists = FALSE, !.entries = <<>>]
    /\ ipc' = "create"
    /\ UNCHANGED <<handle, nextId, run, prev, nRuns>>
    /\ UNCHANGED <<chunkVars, searchVars, extraVars>>

\* vector_store.py:32-35: delete_collection raises (no such collection, or the
\* backend fails) and the exception is dropped; the collection is as it was
DeleteRaises ==
    /\ ipc = "delete"
    /\ run' = [run EXCEPT !.resetFailed = store.exists]
    /\ ipc' = "create"
    /\ UNCHANGED <<store, handle, nextId, prev, nRuns>>
    /\ UNCHANGED <<chunkVars, searchVars, extraVars>>

\* vector_store.py:36-37: get_or_create_collection returns the collection,
\* creating it empty when there is none
CreateOk ==
    /\ ipc = "create"
    /\ store' = IF store.exists THEN store
                ELSE [exists |-> TRUE, gen |-> store.gen + 1, entries |-> <<>>]
    /\ handle' = store'.gen
    /\ run' = [run EXCEPT !.resets = @ + 1]
    /\ ipc' = "load"
    /\ UNCHANGED <<nextId, prev, nRuns>>
    /\ UNCHANGED <<chunkVars, searchVars, extraVars>>

\* vector_store.py:37: get_or_create_collection raises, and so does main()
CreateRaises ==
    /\ ipc = "create"
    /\ run' = [run EXCEPT !.resetFailed = TRUE, !.outcome = "error"]
    /\ ipc' = "idle"
    /\ UNCHANGED <<store, handle, nextId, prev, nRuns>>
    /\ UNCHANGED <<chunkVars, searchVars, extraVars>>

\* ingest.py:88-89: load_dataset raises, and so does main()
LoadRaises ==
    /\ ipc = "load"
    /\ ~load_dataset(run.data).ok
    /\ run' = [run EXCEPT !.outcome = "error"]
    /\ ipc' = "idle"
    /\ UNCHANGED <<store, handle, nextId, prev, nRuns>>
    /\ UNCHANGED <<chunkVars, searchVars, extraVars>>

\* ingest.py:88-132: the dataset yields no chunk; main() returns
LoadNothing ==
    /\ ipc = "load"
    /\ load_dataset(run.data).ok
    /\ AllEntries(load_dataset(run.data).items) = <<>>
    /\ run' = [run EXCEPT !.outcome = "ok"]
    /\ ipc' = "idle"
    /\ UNCHANGED <<store, handle, nextId, prev, nRuns>>
    /\ UNCHANGED <<chunkVars, searchVars, extraVars>>

\* ingest.py:88-134: the chunks, their metadata and their fresh ids are built
LoadChunks ==
    /\ ipc = "load"
    /\ load_dataset(run.data).ok
    /\ AllEntries(load_dataset(run.data).items) # <<>>
    /\ run' = [run EXCEPT !.firstId = nextId]
    /\ nextId' = nextId + Len(AllEntries(load_dataset(run.data).items))
    /\ ipc' = "add"
    /\ UNCHANGED <<store, handle, prev, nRuns>>
    /\ UNCHANGED <<chunkVars, searchVars, extraVars>>

\* ingest.py:135-136, vector_store.py:39-41: add_chunks embeds and inserts
AddOk ==
    /\ ipc = "add"
    /\ store.exists /\ handle = store.gen
    /\ store' = [store EXCEPT !.entries =
                    @ \o WithIds(AllEntries(load_dataset(run.data).items), run.firstId)]
    /\ run' = [run EXCEPT !.addCalls = @ + 1, !.outcome = "ok"]
    /\ ipc' = "idle"
    /\ UNCHANGED <<handle, nextId, prev, nRuns>>
    /\ UNCHANGED <<chunkVars, searchVars, extraVars>>

\* vector_store.py:40-41: embed or _collection.add raises, and so does main()
AddRaises ==
    /\ ipc = "add"
    /\ run' = [run EXCEPT !.addCalls = @ + 1, !.outcome = "error"]
    /\ ipc' = "idle"
    /\ UNCHANGED <<store, handle, nextId, prev, nRuns>>
    /\ UNCHANGED <<chunkVars, searchVars, extraVars>>

------------------------------------------------------------------------------
(* The later sections at rest *)

LoadIdle == ldata = <<>> /\ loaded = <<>>

ScoreIdle == sc = <<>>

ConcIdle == callers = <<>>

ProcIdle == procs = <<>>

RateIdle == buckets = <<>> /\ clock = 0 /\ accepted = <<>> /\ last = <<>>

ExtraIdle == LoadIdle /\ ScoreIdle /\ ConcIdle /\ ProcIdle /\ RateIdle

------------------------------------------------------------------------------
(* chunk_text, one loop iteration at a time *)

MaxTextLen == 8
MaxTarget == 5
MaxOverlap == 3

ChunkAlphabet == {"a", ".", " "}

ChunkIdle ==
    /\ text = <<>> /\ target_chars = 0 /\ overlap = 0
    /\ sentences = <<>> /\ buf = <<>> /\ chunks = <<>>
    /\ parts = <<>> /\ cur = <<>> /\ cpc = "idle"

InitChunk ==
    /\ text \in SeqsUpTo(ChunkAlphabet, MaxTextLen)
    /\ target_chars \in 1..MaxTarget
    /\ overlap \in 0..MaxOverlap
    /\ sentences = <<>> /\ buf = <<>> /\ chunks = <<>>
    /\ parts = <<>> /\ cur = <<>>
    /\ cpc = "start"
    /\ IngestIdle
    /\ SearchIdle
    /\ ExtraIdle

\* ingest.py:15-17: blank text, nothing to chunk
ChunkBlank ==
    /\ cpc = "start"
    /\ Strip(text) = <<>>
    /\ cpc' = "done"
    /\ UNCHANGED <<text, target_chars, overlap, sentences, buf, chunks, parts, cur>>
    /\ UNCHANGED <<ingestVars, searchVars, extraVars>>

\* ingest.py:15-20
ChunkSplit ==
    /\ cpc = "start"
    /\ Strip(text) # <<>>
    /\ sentences' = SENT_SPLIT_split(Strip(text))
    /\ cpc' = "loop"
    /\ UNCHANGED <<text, target_chars, overlap, buf, chunks, parts, cur>>
    /\ UNCHANGED <<ingestVars, searchVars, extraVars>>

\* ingest.py:21-35
ChunkLoop ==
    /\ cpc = "loop"
    /\ sentences # <<>>
    /\ LET st == LoopBody([buf |-> buf, chunks |-> chunks, parts |-> parts, cur |-> cur],
                          Head(sentences), target_chars, overlap)
       IN /\ buf' = st.buf
          /\ chunks' = st.chunks
          /\ parts' = st.parts
          /\ cur' = st.cur
    /\ sentences' = Tail(sentences)
    /\ UNCHANGED <<text, target_chars, overlap, cpc>>
    /\ UNCHANGED <<ingestVars, searchVars, extraVars>>

\* ingest.py:36-38
ChunkReturn ==
    /\ cpc = "loop"
    /\ sentences = <<>>
    /\ LET st == [buf |-> buf, chunks |-> chunks, parts |-> parts, cur |-> cur]
       IN /\ chunks' = FinalFlush(st)
          /\ parts' = FinalParts(st)
    /\ cpc' = "done"
    /\ UNCHANGED <<text, target_chars, overlap, sentences, buf, cur>>
    /\ UNCHANGED <<ingestVars, searchVars, extraVars>>

NextChunk == ChunkBlank \/ ChunkSplit \/ ChunkLoop \/ ChunkReturn

SpecChunk == InitChunk /\ [][NextChunk]_vars

------------------------------------------------------------------------------
(* Ingestion runs, one after another *)

InitIngest == ChunkIdle /\ IngestIdle /\ SearchIdle /\ ExtraIdle

NextIngest ==
    \/ \E data \in DataFiles : StartRun(data)
    \/ DeleteOk
    \/ DeleteRaises
    \/ CreateOk
    \/ CreateRaises
    \/ LoadRaises
    \/ LoadNothing
    \/ LoadChunks
    \/ AddOk
    \/ AddRaises

SpecIngest == InitIngest /\ [][NextIngest]_vars

------------------------------------------------------------------------------
(* Claims about chunk_text, checked under SpecChunk *)

\* the chunks completed so far, followed by the chunk being built
BuiltChunks == IF cpc = "loop" /\ buf # <<>> THEN Append(chunks, buf) ELSE chunks
BuiltParts == IF cpc = "loop" /\ buf # <<>> THEN Append(parts, cur) ELSE parts

\* the prefix a chunk is expected to share with its predecessor pred
OverlapPrefix(pred) ==
    IF overlap > 0 /\ Len(pred) > overlap THEN LStrip(LastN(pred, overlap)) ELSE <<>>

\* C3, as stated: every chunk is at most target_chars long, unless it consists
\* of a single sentence that is itself longer than target_chars.
C3_AsStated ==
    \A i \in 1..Len(chunks) :
        \/ Len(chunks[i]) <= target_chars
        \/ Len(parts[i]) = 1 /\ Len(parts[i][1]) > target_chars

\* C3, amended: a chunk longer than target_chars holds exactly one sentence as
\* new content, and that sentence is longer than target_chars or follows an
\* overlap tail copied from the previous chunk; the chunk is then at most
\* overlap + 1 + len(sentence) long.
C3_ChunkLengthBound ==
    \A i \in 1..Len(chunks) :
        \/ Len(chunks[i]) <= target_chars
        \/ /\ Len(parts[i]) = 1
           /\ Len(chunks[i]) <= overlap + 1 + Len(parts[i][1])
           /\ \/ Len(parts[i][1]) > target_chars
              \/ i > 1 /\ OverlapPrefix(chunks[i - 1]) # <<>>

\* a finished run with a chunk over the target whose single sentence fits it
C3_Witness ==
    /\ cpc = "done"
    /\ \E i \in 1..Len(chunks) :
          Len(chunks[i]) > target_chars /\ Len(parts[i][1]) <= target_chars

\* what is left of chunk i once the prefix shared with chunk i-1 is removed
Remainder(i) ==
    IF i = 1 THEN chunks[1]
    ELSE Strip(SubSeq(chunks[i], Len(OverlapPrefix(chunks[i - 1])) + 1, Len(chunks[i])))

RECURSIVE Remainders(_)
Remainders(i) == IF i > Len(chunks) THEN <<>> ELSE <<Remainder(i)>> \o Remainders(i + 1)

\* the non-empty sentences of t, in order
NonEmptySentences(t) ==
    LET ss == SENT_SPLIT_split(Strip(t))
        stripped == [i \in 1..Len(ss) |-> Strip(ss[i])]
    IN SelectSeq(stripped, LAMBDA s : s # <<>>)

\* C4: when chunk_text returns, every chunk after the first starts with the
\* overlap prefix of its predecessor, and the chunks with those prefixes removed,
\* joined in order, are the non-empty sentences of the text joined in order.
C4_ChunksCoverSentences ==
    cpc = "done" =>
        /\ \A i \in 2..Len(chunks) : StartsWith(chunks[i], OverlapPrefix(chunks[i - 1]))
        /\ JoinSp(Remainders(1)) = JoinSp(NonEmptySentences(text))

\* a finished run of three chunks, two of them carrying an overlap prefix
C4_Witness ==
    /\ cpc = "done"
    /\ Len(chunks) >= 3
    /\ OverlapPrefix(chunks[1]) # <<>>
    /\ OverlapPrefix(chunks[2]) # <<>>

\* C5, as stated: with overlap > 0, whatever the length of the flushed buffer,
\* the chunk that follows starts with the trailing overlap characters of it.
C5_AsStated ==
    \A i \in 2..Len(BuiltChunks) :
        overlap > 0 =>
            StartsWith(BuiltChunks[i], LStrip(LastN(BuiltChunks[i - 1], overlap)) \o <<" ">>)

\* C5, amended: with overlap > 0, after a flush of a buffer longer than overlap
\* the next chunk starts with the trailing overlap characters of the flushed
\* buffer (leading whitespace trimmed) followed by a space and its first new
\* sentence; after a flush of a buffer of at most overlap characters, and
\* whenever overlap = 0, the next chunk holds its new sentences only.
C5_OverlapSeeding ==
    \A i \in 2..Len(BuiltChunks) :
        IF overlap > 0 /\ Len(BuiltChunks[i - 1]) > overlap
        THEN StartsWith(BuiltChunks[i],
                        LStrip(LastN(BuiltChunks[i - 1], overlap)) \o <<" ">> \o BuiltParts[i][1])
        ELSE BuiltChunks[i] = JoinSp(BuiltParts[i])

\* a flush of a buffer longer than overlap has happened, and so has a flush
\* of a buffer no longer than overlap
C5_Witness ==
    /\ overlap > 0
    /\ \E i \in 2..Len(BuiltChunks) : Len(BuiltChunks[i - 1]) > overlap
    /\ \E i \in 2..Len(BuiltChunks) : Len(BuiltChunks[i - 1]) <= overlap

------------------------------------------------------------------------------
(* Searches over an index that ingestion has filled *)

MaxK == 4

Q_empty == <<>>
Q_blank == <<" ">>
Q_dune == <<"d", "u", "n", "e">>
Q_war == <<"W", "A", "R", " ", "b", "y", " ", "A", "l">>
Q_love == <<"l", "o", "v", "e", ",", " ", "w", "i", "t">>

Queries == {Q_empty, Q_blank, Q_dune, Q_war, Q_love}

\* no filter, the empty filter, and filters on the author
Filters == {None, Some(EmptyDict), Some([author |-> S_Al]), Some([author |-> S_Emma])}

\* cosine distances, in hundredths
Dists == {0, 35, 100, 130}

\* the values of n_results given to query_raw; 10 is its default
RawSizes == {2, 10}

\* the store after main() has run once on `data` without a backend failure
StoreAfter(data) ==
    [exists |-> TRUE, gen |-> 1,
     entries |-> WithIds(AllEntries(load_dataset(data).items), 0)]

DocsOf(ents) == {ents[i].document : i \in 1..Len(ents)}

InitSearch ==
    /\ ChunkIdle
    /\ \E data \in DataFiles :
          /\ store = StoreAfter(data)
          /\ nextId = Len(store.entries)
    /\ handle = 1 /\ ipc = "idle" /\ run = NoRun /\ prev = NoRun /\ nRuns = 0
    /\ SearchIdle
    /\ ExtraIdle

\* a call search_with_rerank(q, k, filters); the embedding service places the
\* query at the distances `dist` from the stored documents
Search(q, k, filters, dist) ==
    /\ call.op = "none"
    /\ store.exists /\ handle = store.gen
    /\ LET r == search_with_rerank(store.entries, q, k, filters, dist)
       IN call' = [op |-> "search", q |-> q, k |-> k, filters |-> filters, dist |-> dist,
                   sent |-> r.sent, ok |-> r.ok, results |-> r.results,
                   nEntries |-> Len(store.entries)]
    /\ UNCHANGED <<chunkVars, ingestVars, extraVars>>

\* a call query_raw(q, n, where)
QueryRaw(q, n, where, dist) ==
    /\ call.op = "none"
    /\ store.exists /\ handle = store.gen
    /\ LET r == query_raw(store.entries, q, n, where, dist)
       IN call' = [op |-> "query_raw", q |-> q, k |-> n, filters |-> where, dist |-> dist,
                   sent |-> r.sent, ok |-> r.res.ok, results |-> r.res.cands,
                   nEntries |-> Len(store.entries)]
    /\ UNCHANGED <<chunkVars, ingestVars, extraVars>>

\* the caller is done with the result of the last call
Forget ==
    /\ call.op # "none"
    /\ call' = NoCall
    /\ UNCHANGED <<chunkVars, ingestVars, extraVars>>

NextSearch ==
    \/ \E q \in Queries, k \in 1..MaxK, f \in Filters,
          dist \in [DocsOf(store.entries) -> Dists] : Search(q, k, f, dist)
    \/ \E q \in Queries, n \in RawSizes, f \in Filters,
          dist \in [DocsOf(store.entries) -> Dists] : QueryRaw(q, n, f, dist)
    \/ Forget

SpecSearch == InitSearch /\ [][NextSearch]_vars

------------------------------------------------------------------------------
(* Claims about search_with_rerank and query_raw, checked under SpecSearch *)

\* the filter of the last call is absent or empty
NoFilterGiven == call.filters = None \/ call.filters = Some(EmptyDict)

\* M: the entries of the index that the filter of the last call selects
MatchCount ==
    Cardinality({i \in 1..Len(store.entries) :
                    NoFilterGiven \/ Matches(store.entries[i].metadata, call.filters[1])})

\* C1: a search that returns gives at most k items, in non-increasing order of
\* score, and no more items than the index holds.
C1_TopKContract ==
    (call.op = "search" /\ call.ok) =>
        /\ Len(call.results) <= call.k
        /\ Len(call.results) <= call.nEntries
        /\ \A i \in 1..(Len(call.results) - 1) :
              call.results[i].score >= call.results[i + 1].score

\* a search cut to k items out of more, whose best item was not the nearest
C1_Witness ==
    /\ call.op = "search" /\ call.ok
    /\ call.k >= 2 /\ Len(call.results) = call.k /\ call.nEntries > call.k
    /\ call.results[1].score > call.results[2].score
    /\ call.dist[call.results[1].document] > call.dist[call.results[2].document]

\* C2: every search returns, and returns exactly min(k, M) items: never padded,
\* never short, and empty without an error when M = 0.
C2_ExactCount ==
    call.op = "search" => (call.ok /\ Len(call.results) = Min(call.k, MatchCount))

\* k = 3 against an index of exactly one chunk gives exactly one result
C2_Witness ==
    /\ call.op = "search" /\ call.ok
    /\ call.k = 3 /\ call.nEntries = 1 /\ Len(call.results) = 1

\* C6: a call whose filter is absent or empty sends the index a query without
\* any `where`; a call with a non-empty filter sends that filter unchanged.
C6_NoEmptyFilterSent ==
    call.op # "none" =>
        IF NoFilterGiven
        THEN "where" \notin DOMAIN call.sent
        ELSE "where" \in DOMAIN call.sent /\ call.sent.where = call.filters[1]

\* query_raw was given the empty filter, sent no `where`, and the index answered
C6_Witness ==
    /\ call.op = "query_raw"
    /\ call.filters = Some(EmptyDict)
    /\ "where" \notin DOMAIN call.sent
    /\ call.ok /\ call.results # <<>>

\* C7: with a filter on the author, every returned item has that author.
C7_FilterRespected ==
    (call.op = "search" /\ ~NoFilterGiven /\ "author" \in DOMAIN call.filters[1]) =>
        \A i \in 1..Len(call.results) :
            call.results[i].metadata.author = call.filters[1].author

\* a filtered search returned something and left out an entry of another author
\* although k had room for it
C7_Witness ==
    /\ call.op = "search" /\ ~NoFilterGiven
    /\ call.results # <<>>
    /\ Len(call.results) < call.k
    /\ \E i \in 1..Len(store.entries) :
          store.entries[i].metadata.author # call.filters[1].author

\* C10, as stated: a search with an empty or whitespace-only query, or over an
\* empty index, returns the empty list and raises nothing.
C10_AsStated ==
    (call.op = "search" /\ (Strip(call.q) = <<>> \/ call.nEntries = 0)) =>
        (call.ok /\ call.results = <<>>)

------------------------------------------------------------------------------
(* The scoring of one candidate: the body of the loop at vector_store.py:97-128 *)

Q_War == <<"W", "A", "R">>
Q_DuneSpaced == <<" ", "D", "U", "N", "E", " ">>
Q_al == <<"a", "l">>
S_War == <<"W", "a", "r">>
S_warlove == <<"w", "a", "r", ",", " ", "l", "o", "v", "e">>
\* seven words, all of them the same
T_Wars == <<"w", "a", "r", " ", "W", "a", "r", " ", "w", "a", "r", " ", "w", "a", "r", " ",
            "w", "a", "r", " ", "w", "a", "r", " ", "W", "A", "R">>

ScoreQueries == {Q_empty, Q_blank, Q_dune, Q_war, Q_love, Q_War, Q_DuneSpaced, Q_al}

ScoreDocuments == {<<>>, T_Dune, T_Emma, T_Saga, T_Wars}

\* metadata as ingest.main stores it: the title stripped, the themes joined
ScoreMetadatas ==
    {[title |-> S_Dune, author |-> S_Al, themes |-> S_war],
     [title |-> S_War, author |-> S_Bo, themes |-> S_warlove],
     [title |-> S_Al, author |-> S_Al, themes |-> <<>>],
     [title |-> <<>>, author |-> <<>>, themes |-> S_love]}

\* cosine distances in hundredths, one of them below 0 and two above 1
ScoreDists == {-5, 0, 35, 100, 130, 200}

InitScore ==
    /\ ChunkIdle /\ IngestIdle /\ SearchIdle
    /\ LoadIdle /\ ConcIdle /\ ProcIdle /\ RateIdle
    /\ sc = <<>>

\* vector_store.py:97-128: one turn of the loop, for the candidate (doc, meta, dist)
ScoreCandidate(q, doc, meta, dist) ==
    /\ sc = <<>>
    /\ LET sem == Semantic(dist)
           lex == lexical_overlap_score(q, doc)
           boost == Boost(q, meta)
       IN sc' = <<[q |-> q, document |-> doc, metadata |-> meta, dist |-> dist,
                   sem |-> sem, lex |-> lex, boost |-> boost,
                   score |-> Score(sem, lex, boost)]>>
    /\ UNCHANGED <<chunkVars, ingestVars, searchVars, loadVars, concVars, procVars, rateVars>>

NextScore ==
    \E q \in ScoreQueries, doc \in ScoreDocuments, meta \in ScoreMetadatas,
       dist \in ScoreDists : ScoreCandidate(q, doc, meta, dist)

SpecScore == InitScore /\ [][NextScore]_vars

\* the boosts a candidate can get, in 1/10000
BoostValues == {0, 200, 400, 600, 1000, 1200, 1600, 2000, 2400, 2600, 3000}

\* C13: for every candidate 0 <= semantic <= 1 and 0 <= lexical <= 1, and with
\* semantic and lexical as they are the composite score does not fall when the
\* boost grows; the score is never below 0.
C13_ScoreBounds ==
    sc # <<>> =>
        LET c == sc[1] IN
        /\ 0 <= c.sem /\ c.sem <= 100
        /\ c.lex.den > 0 /\ 0 <= c.lex.num /\ c.lex.num <= c.lex.den
        /\ c.boost >= 0
        /\ \A b1, b2 \in BoostValues \cup {c.boost} :
              b1 <= b2 => FracGeq(Score(c.sem, c.lex, b2), Score(c.sem, c.lex, b1))
        /\ FracGeq(c.score, Score(c.sem, c.lex, 0))
        /\ c.score.num >= 0

\* a candidate farther than distance 1 whose every word is in the query, boosted
C13_Witness ==
    /\ sc # <<>>
    /\ sc[1].dist > 100 /\ sc[1].sem = 0
    /\ sc[1].lex.num = sc[1].lex.den
    /\ sc[1].boost > 0

\* the stored title is the query, letter case aside
TitleIsQuery(c) ==
    c.metadata.title # <<>> /\ LowerStr(c.metadata.title) = LowerStr(c.q)

\* C14, as stated: for a candidate whose title equals the query
\* case-insensitively the boost is exactly 0.20, whatever its themes and author.
C14_AsStated ==
    (sc # <<>> /\ TitleIsQuery(sc[1])) =>
        /\ sc[1].boost = 2000
        /\ sc[1].score = Score(sc[1].sem, sc[1].lex, 2000)

\* the themes of the candidate that occur in the query, each as often as listed
ThemesInQuery(c) ==
    LET ths == SplitOn(c.metadata.themes, ",")
    IN Cardinality({i \in 1..Len(ths) :
          Strip(ths[i]) # <<>> /\ Contains(LowerStr(c.q), LowerStr(Strip(ths[i])))})

AuthorInQuery(c) ==
    Strip(c.metadata.author) # <<>>
    /\ Contains(LowerStr(c.q), LowerStr(Strip(c.metadata.author)))

\* C14: for a candidate whose title equals the query case-insensitively the
\* title's part of the boost is exactly 0.20; the boost is 0.20 plus 0.04 for
\* every theme of the candidate found in the query plus 0.06 when its author is
\* found in the query, hence exactly 0.20 when neither is found.
C14_TitleBoostStacks ==
    (sc # <<>> /\ TitleIsQuery(sc[1])) =>
        LET c == sc[1]
            expected == 2000 + 400 * ThemesInQuery(c) + (IF AuthorInQuery(c) THEN 600 ELSE 0)
        IN /\ c.boost = expected
           /\ c.score = Score(c.sem, c.lex, expected)
           /\ (ThemesInQuery(c) = 0 /\ ~AuthorInQuery(c)) => c.boost = 2000

\* the title is the query in another letter case, and a theme is in the query too
C14_Witness ==
    /\ sc # <<>> /\ TitleIsQuery(sc[1])
    /\ sc[1].metadata.title # sc[1].q
    /\ sc[1].boost = 2400

\* the words of the document, one of each
DistinctWords(doc) == SeqRange(norm_words(doc))

\* C17, as stated: the lexical score is the number of distinct words of the
\* document that occur in the query, over max(6, number of words of the document).
C17_AsStated ==
    sc # <<>> =>
        LET c == sc[1]
            distinct == Cardinality(DistinctWords(c.document) \cap DistinctWords(c.q))
        IN c.lex.num * Max(6, Len(norm_words(c.document))) = distinct * c.lex.den

\* the occurrences, in ws from position i on, of words that are in qs
RECURSIVE Occurrences(_, _, _)
Occurrences(ws, qs, i) ==
    IF i > Len(ws) THEN 0
    ELSE (IF ws[i] \in qs THEN 1 ELSE 0) + Occurrences(ws, qs, i + 1)

\* C17: the lexical score is the number of words of the document, every
\* occurrence counted, whose case-folded form occurs in the query, over
\* max(6, number of words of the document).
C17_LexicalCountsOccurrences ==
    sc # <<>> =>
        LET c == sc[1]
            hits == Occurrences(norm_words(c.document), DistinctWords(c.q), 1)
        IN c.lex.num * Max(6, Len(norm_words(c.document))) = hits * c.lex.den

\* a document that holds a word of the query twice scored 2 hits
C17_Witness ==
    /\ sc # <<>>
    /\ sc[1].document = T_Dune
    /\ sc[1].lex = Frac(2, 6)

------------------------------------------------------------------------------
(* Searches of several callers, step by step, on one index *)

Callers == {1, 2}

ConcKs == {1, 2}
ConcQueries == {Q_dune, Q_war}
ConcFilters == {None, Some([author |-> S_Al])}
ConcDists == {0, 100}
ConcFiles == {FileOne, FileBooks}

NoCaller == [pc |-> "idle", op |-> "none", q |-> <<>>, k |-> 0, filters |-> <<>>,
             dist |-> <<>>, sent |-> <<>>, cands |-> <<>>, ok |-> TRUE, results |-> <<>>]

InitConc ==
    /\ ChunkIdle
    /\ \E data \in ConcFiles :
          /\ store = StoreAfter(data)
          /\ nextId = Len(store.entries)
    /\ handle = 1 /\ ipc = "idle" /\ run = NoRun /\ prev = NoRun /\ nRuns = 0
    /\ SearchIdle
    /\ LoadIdle /\ ScoreIdle /\ ProcIdle /\ RateIdle
    /\ callers = [c \in Callers |-> NoCaller]

\* a query that wipes what it has read
QueryWipes(st) == [st EXCEPT !.entries = <<>>]

\* vector_store.py:59: what _collection.query leaves of the collection: all of it
AfterQuery(st) == st

\* vector_store.py:90-131: the candidates scored, sorted and cut to k
rerank(q, k, cands) ==
    LET items == [i \in 1..Len(cands) |-> ScoredItem(q, cands[i])]
        top == FirstK(SortByScoreDesc(items), k)
    IN [i \in 1..Len(top) |->
           [document |-> top[i].document, metadata |-> top[i].metadata,
            score |-> Round4(top[i].score)]]

\* vector_store.py:86-87, 44-54: caller c enters search_with_rerank(q, k, filters)
\* and builds the arguments of the index query; the embedding service places
\* the query at the distances `dist`
SearchBegin(c, q, k, filters, dist) ==
    /\ callers[c].pc = "idle"
    /\ callers' = [callers EXCEPT ![c] =
          [NoCaller EXCEPT !.pc = "built", !.op = "search", !.q = q, !.k = k,
                           !.filters = filters, !.dist = dist,
                           !.sent = build_query_kwargs(q, CandidateCount(k),
                                                       SearchWhere(filters))]]
    /\ UNCHANGED <<chunkVars, ingestVars, searchVars, loadVars, scoreVars, procVars, rateVars>>

\* vector_store.py:57-58: caller c enters query_raw(q, n, where)
QueryRawBegin(c, q, n, where, dist) ==
    /\ callers[c].pc = "idle"
    /\ callers' = [callers EXCEPT ![c] =
          [NoCaller EXCEPT !.pc = "built", !.op = "query_raw", !.q = q, !.k = n,
                           !.filters = where, !.dist = dist,
                           !.sent = build_query_kwargs(q, n, where)]]
    /\ UNCHANGED <<chunkVars, ingestVars, searchVars, loadVars, scoreVars, procVars, rateVars>>

\* vector_store.py:59: the index answers caller c's query; query_raw returns
IndexQuery(c) ==
    /\ callers[c].pc = "built"
    /\ store.exists /\ handle = store.gen
    /\ LET r == collection_query(store.entries, callers[c].sent, callers[c].dist)
       IN callers' = [callers EXCEPT ![c] =
             IF callers[c].op = "search" /\ r.ok
             THEN [@ EXCEPT !.pc = "queried", !.cands = r.cands]
             ELSE [@ EXCEPT !.pc = "done", !.ok = r.ok, !.results = r.cands]]
    /\ store' = AfterQuery(store)
    /\ UNCHANGED <<handle, nextId, ipc, run, prev, nRuns>>
    /\ UNCHANGED <<chunkVars, searchVars, loadVars, scoreVars, procVars, rateVars>>

\* vector_store.py:90-132: caller c scores and sorts its candidates and returns
RerankReturn(c) ==
    /\ callers[c].pc = "queried"
    /\ callers' = [callers EXCEPT ![c] =
          [@ EXCEPT !.pc = "done",
                    !.results = rerank(callers[c].q, callers[c].k, callers[c].cands)]]
    /\ UNCHANGED <<chunkVars, ingestVars, searchVars, loadVars, scoreVars, procVars, rateVars>>

\* caller c is done with its result
CallerForget(c) ==
    /\ callers[c].pc = "done"
    /\ callers' = [callers EXCEPT ![c] = NoCaller]
    /\ UNCHANGED <<chunkVars, ingestVars, searchVars, loadVars, scoreVars, procVars, rateVars>>

NextConc ==
    \E c \in Callers :
        \/ \E q \in ConcQueries, k \in ConcKs, f \in ConcFilters,
              dist \in [DocsOf(store.entries) -> ConcDists] : SearchBegin(c, q, k, f, dist)
        \/ \E q \in ConcQueries, f \in ConcFilters,
              dist \in [DocsOf(store.entries) -> ConcDists] : QueryRawBegin(c, q, 2, f, dist)
        \/ IndexQuery(c)
        \/ RerankReturn(c)
        \/ CallerForget(c)

SpecConc == InitConc /\ [][NextConc]_vars

\* what caller c's call returns when it runs alone on the index as it is
Alone(c) ==
    IF callers[c].op = "search"
    THEN LET r == search_with_rerank(store.entries, callers[c].q, callers[c].k,
                                     callers[c].filters, callers[c].dist)
         IN [ok |-> r.ok, results |-> r.results]
    ELSE LET r == query_raw(store.entries, callers[c].q, callers[c].k,
                            callers[c].filters, callers[c].dist)
         IN [ok |-> r.res.ok, results |-> r.res.cands]

\* C15: no step of query_raw or search_with_rerank changes the entries of the
\* index or the collection handle, and whatever the other caller is doing,
\* every call returns what it returns when run alone.
C15_SearchesReadOnly ==
    /\ [](\A c \in Callers :
            callers[c].pc = "done" =>
                (callers[c].ok = Alone(c).ok /\ callers[c].results = Alone(c).results))
    /\ [][store' = store /\ handle' = handle]_vars

\* caller 1 has its result while caller 2, with another query, is between the
\* index's answer and its own return
C15_Witness ==
    /\ callers[1].pc = "done" /\ callers[1].op = "search" /\ callers[1].results # <<>>
    /\ callers[2].pc = "queried" /\ callers[2].q # callers[1].q

------------------------------------------------------------------------------
(* Two ingestion runs side by side: each a process with its own _collection,
   both on one Chroma directory and one dataset file *)

Procs == {1, 2}

ProcFiles == {FileEmpty, FileOne, FileBooks}

\* what the index holds before the two runs: nothing, or an earlier run's entries
ProcStores == {FreshStore} \cup {StoreAfter(data) : data \in ProcFiles}

\* alone: no other run was under way when this one began; deleted: its
\* delete_collection went through
NoProc == [pc |-> "ready", data |-> JNull, handle |-> 0, outcome |-> "none",
           addCalls |-> 0, firstId |-> 0, alone |-> TRUE, deleted |-> FALSE]

InitProcs ==
    /\ ChunkIdle /\ SearchIdle
    /\ LoadIdle /\ ScoreIdle /\ ConcIdle /\ RateIdle
    /\ store \in ProcStores
    /\ nextId = Len(store.entries)
    /\ handle = 0 /\ ipc = "idle" /\ run = NoRun /\ prev = NoRun /\ nRuns = 0
    /\ \E data \in ProcFiles : procs = [p \in Procs |-> [NoProc EXCEPT !.data = data]]

\* a delete that leaves the collection where it is
delete_collection_noop(st) == st

\* vector_store.py:33: _chroma.delete_collection(_COL_NAME), when it succeeds
delete_collection(st) == [st EXCEPT !.exists = FALSE, !.entries = <<>>]

\* vector_store.py:36-37: the collection of that name, made empty if there is none
get_or_create_collection(st) ==
    IF st.exists THEN st ELSE [exists |-> TRUE, gen |-> st.gen + 1, entries |-> <<>>]

ProcFrame ==
    /\ UNCHANGED <<handle, ipc, run, prev, nRuns>>
    /\ UNCHANGED <<chunkVars, searchVars, loadVars, scoreVars, concVars, rateVars>>

\* ingest.py:84-85: process p enters main()
PStart(p) ==
    /\ procs[p].pc = "ready"
    /\ procs' = [procs EXCEPT ![p] =
          [@ EXCEPT !.pc = "delete", !.outcome = "running",
                    !.alone = \A o \in Procs \ {p} : procs[o].pc \in {"ready", "done"}]]
    /\ UNCHANGED <<store, nextId>>
    /\ ProcFrame

\* vector_store.py:33: delete_collection succeeds
PDeleteOk(p) ==
    /\ procs[p].pc = "delete"
    /\ store.exists
    /\ store' = delete_collection(store)
    /\ procs' = [procs EXCEPT ![p] = [@ EXCEPT !.pc = "create", !.deleted = TRUE]]
    /\ UNCHANGED nextId
    /\ ProcFrame

\* vector_store.py:32-35: delete_collection raises and the exception is dropped
PDeleteRaises(p) ==
    /\ procs[p].pc = "delete"
    /\ procs' = [procs EXCEPT ![p] = [@ EXCEPT !.pc = "create"]]
    /\ UNCHANGED <<store, nextId>>
    /\ ProcFrame

\* vector_store.py:36-37: get_or_create_collection returns; p holds the collection
PCreateOk(p) ==
    /\ procs[p].pc = "create"
    /\ store' = get_or_create_collection(store)
    /\ procs' = [procs EXCEPT ![p] = [@ EXCEPT !.pc = "load", !.handle = store'.gen]]
    /\ UNCHANGED nextId
    /\ ProcFrame

\* vector_store.py:37: get_or_create_collection raises, and so does main()
PCreateRaises(p) ==
    /\ procs[p].pc = "create"
    /\ procs' = [procs EXCEPT ![p] = [@ EXCEPT !.pc = "done", !.outcome = "error"]]
    /\ UNCHANGED <<store, nextId>>
    /\ ProcFrame

\* ingest.py:88-132: the dataset yields no chunk; main() returns
PLoadNothing(p) ==
    /\ procs[p].pc = "load"
    /\ load_dataset(procs[p].data).ok
    /\ AllEntries(load_dataset(procs[p].data).items) = <<>>
    /\ procs' = [procs EXCEPT ![p] = [@ EXCEPT !.pc = "done", !.outcome = "ok"]]
    /\ UNCHANGED <<store, nextId>>
    /\ ProcFrame

\* ingest.py:88-134: the chunks, their metadata and their fresh ids are built
PLoadChunks(p) ==
    /\ procs[p].pc = "load"
    /\ load_dataset(procs[p].data).ok
    /\ AllEntries(load_dataset(procs[p].data).items) # <<>>
    /\ procs' = [procs EXCEPT ![p] = [@ EXCEPT !.pc = "add", !.firstId = nextId]]
    /\ nextId' = nextId + Len(AllEntries(load_dataset(procs[p].data).items))
    /\ UNCHANGED store
    /\ ProcFrame

\* ingest.py:135, vector_store.py:39-41: add_chunks inserts into p's collection
PAddOk(p) ==
    /\ procs[p].pc = "add"
    /\ store.exists /\ procs[p].handle = store.gen
    /\ store' = [store EXCEPT !.entries =
          @ \o WithIds(AllEntries(load_dataset(procs[p].data).items), procs[p].firstId)]
    /\ procs' = [procs EXCEPT ![p] =
          [@ EXCEPT !.pc = "done", !.outcome = "ok", !.addCalls = @ + 1]]
    /\ UNCHANGED nextId
    /\ ProcFrame

\* vector_store.py:40-41: embed or _collection.add raises (p's collection is
\* gone, or the backend fails), and so does main()
PAddRaises(p) ==
    /\ procs[p].pc = "add"
    /\ procs' = [procs EXCEPT ![p] =
          [@ EXCEPT !.pc = "done", !.outcome = "error", !.addCalls = @ + 1]]
    /\ UNCHANGED <<store, nextId>>
    /\ ProcFrame

NextProcs ==
    \E p \in Procs :
        \/ PStart(p)
        \/ PDeleteOk(p)
        \/ PDeleteRaises(p)
        \/ PCreateOk(p)
        \/ PCreateRaises(p)
        \/ PLoadNothing(p)
        \/ PLoadChunks(p)
        \/ PAddOk(p)
        \/ PAddRaises(p)

SpecProcs == InitProcs /\ [][NextProcs]_vars

\* both runs have ended without an error
BothRunsOk == \A p \in Procs : procs[p].pc = "done" /\ procs[p].outcome = "ok"

\* what a single run on the runs' dataset puts into an empty index
SingleRunEntries == AllEntries(load_dataset(procs[1].data).items)

------------------------------------------------------------------------------
(* The rate limiter of the HTTP server: server.py:79-106 *)

\* server.py:79
WINDOW_SEC == 60

\* server.py:80-86, LIMITS.get(key): 0 stands for None
LIMITS(key) ==
    CASE key = "/api/chat"        -> 30
      [] key = "/api/chat/stream" -> 20
      [] key = "/api/tts"         -> 60
      [] key = "/api/stt"         -> 20
      [] key = "/api/image"       -> 30
      [] OTHER                    -> 0

\* the clock stops here
MaxClock == 121
MaxSideCalls == 1

RateIps == {"10.0.0.1", "10.0.0.2"}
\* a rate-limited endpoint and one that is not
RateKeys == {"/api/chat/stream", "/docs"}
\* the clock advances by a whole window, or by a second more
TickSteps == {WINDOW_SEC, WINDOW_SEC + 1}

\* the pair whose bucket is driven to its limit; the other pairs get few calls
MainPair == <<"10.0.0.1", "/api/chat/stream">>

\* a timestamp that leaves the bucket as soon as the window is reached
ExpiredAtWindow(now, t) == now - t >= WINDOW_SEC

\* server.py:101: now - dq[0] > WINDOW_SEC
Expired(now, t) == now - t > WINDOW_SEC

\* server.py:101-102: while dq and now - dq[0] > WINDOW_SEC: dq.popleft()
RECURSIVE Evict(_, _)
Evict(dq, now) ==
    IF dq # <<>> /\ Expired(now, Head(dq)) THEN Evict(Tail(dq), now) ELSE dq

\* _buckets with pair bound to dq
WithBucket(bk, pair, dq) ==
    [x \in DOMAIN bk \cup {pair} |-> IF x = pair THEN dq ELSE bk[x]]

\* _buckets.setdefault(pair, deque()), the deque returned
BucketOf(bk, pair) == IF pair \in DOMAIN bk THEN bk[pair] ELSE <<>>

\* server.py:95-106: [ok |-> what allow returns, buckets |-> _buckets after it]
allow(bk, ip, key, now) ==
    LET limit == LIMITS(key) IN
    IF limit = 0 THEN [ok |-> TRUE, buckets |-> bk]
    ELSE LET dq == Evict(BucketOf(bk, <<ip, key>>), now)
         IN IF Len(dq) >= limit
            THEN [ok |-> FALSE, buckets |-> WithBucket(bk, <<ip, key>>, dq)]
            ELSE [ok |-> TRUE, buckets |-> WithBucket(bk, <<ip, key>>, Append(dq, now))]

InitRate ==
    /\ ChunkIdle /\ IngestIdle /\ SearchIdle
    /\ LoadIdle /\ ScoreIdle /\ ConcIdle /\ ProcIdle
    /\ RateIdle

\* a request from ip to the endpoint key: the handler calls allow(ip, key)
Allow(ip, key) ==
    /\ (<<ip, key>> # MainPair /\ LIMITS(key) # 0)
          => Len(BucketOf(accepted, <<ip, key>>)) < MaxSideCalls
    /\ LET r == allow(buckets, ip, key, clock)
       IN /\ buckets' = r.buckets
          /\ last' = <<[ip |-> ip, key |-> key, now |-> clock, ok |-> r.ok]>>
          /\ accepted' = IF r.ok /\ LIMITS(key) # 0
                          THEN WithBucket(accepted, <<ip, key>>,
                                          Append(BucketOf(accepted, <<ip, key>>), clock))
                          ELSE accepted
    /\ UNCHANGED clock
    /\ UNCHANGED <<chunkVars, ingestVars, searchVars, loadVars, scoreVars, concVars, procVars>>

\* time passes
Tick(d) ==
    /\ clock + d <= MaxClock
    /\ clock' = clock + d
    /\ UNCHANGED <<buckets, accepted, last>>
    /\ UNCHANGED <<chunkVars, ingestVars, searchVars, loadVars, scoreVars, concVars, procVars>>

NextRate ==
    \/ \E ip \in RateIps, key \in RateKeys : Allow(ip, key)
    \/ \E d \in TickSteps : Tick(d)

SpecRate == InitRate /\ [][NextRate]_vars

\* the calls of one pair that returned True at a time in [t, t + WINDOW_SEC]
AcceptedWithin(pair, t) ==
    Cardinality({i \in 1..Len(accepted[pair]) :
                    t <= accepted[pair][i] /\ accepted[pair][i] <= t + WINDOW_SEC})

\* new is old without some of its first elements
IsSuffix(new, old) ==
    \E n \in 0..Len(old) : new = SubSeq(old, n + 1, Len(old))

\* C18: with a clock that never goes back, a bucket never holds more
\* timestamps than its endpoint's limit, and of the calls of one pair at most
\* `limit` return True within any 60 seconds; a call of allow leaves the
\* buckets of the other pairs as they are, and one that returns False adds no
\* timestamp to its own.
C18_RateLimiter ==
    /\ [](/\ \A pair \in DOMAIN buckets : Len(buckets[pair]) <= LIMITS(pair[2])
          /\ \A pair \in DOMAIN accepted :
                \A i \in 1..Len(accepted[pair]) :
                    AcceptedWithin(pair, accepted[pair][i]) <= LIMITS(pair[2]))
    /\ [][clock' = clock =>
            LET c == last'[1]
                pair == <<c.ip, c.key>>
            IN /\ \A other \in DOMAIN buckets \ {pair} :
                     other \in DOMAIN buckets' /\ buckets'[other] = buckets[other]
               /\ (~c.ok) => IsSuffix(buckets'[pair], BucketOf(buckets, pair))
               /\ (c.ok /\ LIMITS(c.key) # 0) =>
                     /\ Len(buckets'[pair]) >= 1
                     /\ buckets'[pair][Len(buckets'[pair])] = c.now]_vars

\* the bucket is full, a call has just been refused at the very end of the
\* window, and another pair holds a timestamp of its own
C18_Witness ==
    /\ last # <<>> /\ ~last[1].ok
    /\ last[1].now = WINDOW_SEC
    /\ Len(buckets[MainPair]) = LIMITS(MainPair[2])
    /\ \E other \in DOMAIN buckets \ {MainPair} : buckets[other] # <<>>

------------------------------------------------------------------------------
(* load_dataset on JSON documents of every shape *)

MaxListLen == 2
MaxKeys == 2

\* what a list may hold: records, and a value that is no record
ListElements == {RecDune, RecBlank, JNum(7)}

\* what a key of a mapping may hold; the fields of the records are strings,
\* as a Record's are
MappingValues ==
    {JStr(T_Emma), RecDune, RecEmmaUntitled, JDict(<<>>, <<>>),
     JNum(7), JNull, JList(<<RecDune>>)}

MappingKeys == {"books", "Dune", "Emma"}

\* sequences of distinct keys
KeySeqs ==
    {ks \in SeqsUpTo(MappingKeys, MaxKeys) :
        \A i, j \in 1..Len(ks) : i # j => ks[i] # ks[j]}

JsonDocuments ==
    {JNum(7), JNull, JStr(T_Emma)}
    \cup {JList(v) : v \in SeqsUpTo(ListElements, MaxListLen)}
    \cup UNION {{JDict(ks, vs) : vs \in [1..Len(ks) -> MappingValues]} : ks \in KeySeqs}

InitLoad ==
    /\ ChunkIdle /\ IngestIdle /\ SearchIdle
    /\ ScoreIdle /\ ConcIdle /\ ProcIdle /\ RateIdle
    /\ ldata \in JsonDocuments
    /\ loaded = <<>>

\* ingest.py:40-82 on the document read at lines 42-43
LoadDataset ==
    /\ loaded = <<>>
    /\ loaded' = <<load_dataset(ldata)>>
    /\ UNCHANGED ldata
    /\ UNCHANGED <<chunkVars, ingestVars, searchVars, scoreVars, concVars, procVars, rateVars>>

NextLoad == LoadDataset

SpecLoad == InitLoad /\ [][NextLoad]_vars

\* the positions of a mapping's values that are strings or objects
UsableAt(d) ==
    SelectSeq([i \in 1..Len(d.k) |-> i], LAMBDA i : d.v[i].t \in {"str", "dict"})

------------------------------------------------------------------------------
(* Claims about ingestion, checked under SpecIngest *)

\* C8, as stated: when main() has run twice in a row on the same dataset, both
\* times to the end, the index holds the documents and metadata it held after
\* the first of the two runs.
C8_AsStated ==
    (ipc = "idle" /\ run.outcome = "ok" /\ prev.outcome = "ok" /\ run.data = prev.data) =>
        DocMeta(store.entries) = run.before

\* C9, as stated: a run whose reset failed ends with an error and never calls
\* add_chunks.
C9_AsStated ==
    run.resetFailed =>
        /\ run.addCalls = 0
        /\ ipc \in {"create", "idle"}
        /\ ipc = "idle" => run.outcome = "error"

\* the dataset of the run yields no chunk
YieldsNoChunks(data) ==
    load_dataset(data).ok /\ AllEntries(load_dataset(data).items) = <<>>

\* C11, as stated: in every run reset_collection has returned before add_chunks
\* is called, and add_chunks is called at most once; a run on a dataset that
\* yields no chunks never calls add_chunks and ends with the index empty.
C11_AsStated ==
    /\ run.addCalls <= 1
    /\ (ipc = "add" \/ run.addCalls > 0) => run.resets = 1
    /\ (run.outcome = "ok" /\ YieldsNoChunks(run.data)) =>
          (run.addCalls = 0 /\ store.entries = <<>>)

====
